---------------------------- MODULE Spec2Model ----------------------------
(***************************************************************************)
(* Model of gd.sql_connection.SQLConnectionHandler: its construction, the  *)
(* statement executor (execute / executemany / execute_fetchone /          *)
(* execute_fetchall), the queue engine (create_queue / add_to_queue /      *)
(* execute_queue), the scoped cursor provider, the autocommit property,    *)
(* and the psycopg2 connection it drives (transaction state, commit,       *)
(* rollback, close).                                                       *)
(***************************************************************************)
EXTENDS Integers, Sequences, FiniteSets, TLC

(***************************************************************************)
(* Bounds of the model.                                                    *)
(***************************************************************************)
MaxAppends == 2
MaxQueueLen == 3
MaxRuns == 1

(***************************************************************************)
(* Python values.  Every value is a record [t, v]: t is the Python type,   *)
(* v a sequence: the digits of an int as <<n>>, the characters of a str,   *)
(* the items of a list or tuple, the <<key, value>> pairs of a dict.       *)
(***************************************************************************)
PyNone == [t |-> "none", v |-> <<>>]
PyInt(n) == [t |-> "int", v |-> <<n>>]
PyStr(s) == [t |-> "str", v |-> s]
PyList(xs) == [t |-> "list", v |-> xs]
PyTuple(xs) == [t |-> "tuple", v |-> xs]
PyDict(kvs) == [t |-> "dict", v |-> kvs]
PyBool(b) == [t |-> "bool", v |-> <<b>>]

\* Python truthiness: None, 0, False, "", [], () and {} are falsy.
Truthy(x) ==
    CASE x.t = "none" -> FALSE
      [] x.t = "int" -> x.v[1] # 0
      [] x.t = "bool" -> x.v[1]
      [] OTHER -> Len(x.v) > 0

\* The placeholder string "{i}" as a str value, for 0 <= i <= 9.
Digits == <<"0", "1", "2", "3", "4", "5", "6", "7", "8", "9">>
Placeholder(i) == PyStr(<<"{", Digits[i + 1], "}">>)

(***************************************************************************)
(* The statements of the model and what the driver does with each.         *)
(*   INSERT            changes the table, has no result set                *)
(*   INSERT_RETURNING  changes the table, returns one row of one column    *)
(*   SELECT            changes nothing, returns two rows of two columns    *)
(*   UPDATE            changes the table, has no result set                *)
(*   NO_TABLE          is rejected by the server (relation does not exist) *)
(*   SELECT_UNDECODABLE changes nothing, and its result set cannot be      *)
(*                     decoded when it is fetched                          *)
(*   SELECT_TOKEN      changes nothing, returns one row of two columns,    *)
(*                     the first a text of placeholder form                *)
(* INSERT has exactly one parameter; the other statements bind whatever    *)
(* arguments they are given.                                               *)
(***************************************************************************)
Statements ==
    {"INSERT", "INSERT_RETURNING", "SELECT", "UPDATE", "NO_TABLE", "SELECT_UNDECODABLE",
     "SELECT_TOKEN"}

\* The exception classes of psycopg2 that derive from psycopg2.Error, which
\* the handler imports as PostgresError.
IsPostgresError(e) == e \in {"ProgrammingError", "DataError", "InterfaceError"}

DriverRejects(sql) == sql = "NO_TABLE"

\* cur.execute(sql, sql_args): "none" when the statement runs, or the class of
\* the exception raised.  The driver binds the arguments before it sends
\* anything: arguments that are neither a sequence nor a mapping, or more
\* arguments than parameters, raise TypeError; fewer arguments than
\* parameters raise IndexError.  A parameter left unbound (no arguments) and
\* a missing relation are refused by the server (ProgrammingError).
ExecuteRaises(sql, sql_args) ==
    CASE sql_args.t \in {"int", "bool"} -> "TypeError"
      [] sql = "INSERT" /\ sql_args.t \in {"list", "tuple", "str"} /\ Len(sql_args.v) > 1
            -> "TypeError"
      [] sql = "INSERT" /\ sql_args.t \in {"list", "tuple", "str"} /\ Len(sql_args.v) < 1
            -> "IndexError"
      [] sql = "INSERT" /\ sql_args.t = "none" -> "ProgrammingError"
      [] DriverRejects(sql) -> "ProgrammingError"
      [] OTHER -> "none"

HasEffect(sql) == sql \in {"INSERT", "INSERT_RETURNING", "UPDATE"}

\* cur.fetchall(): "rows" with the result set, or the ProgrammingError
\* psycopg2 raises when the statement produced no result set.
FetchOutcome(sql) ==
    CASE sql \in {"SELECT", "INSERT_RETURNING", "SELECT_TOKEN"} -> "rows"
      [] sql = "SELECT_UNDECODABLE" -> "DataError"
      [] OTHER -> "ProgrammingError"

\* The handlers of execute_queue's fetch swallowing every error of the driver.
FetchSwallowed_any(outcome) == outcome # "rows"

\* The handlers around cur.fetchall() in execute_queue: "except
\* ProgrammingError: pass" comes first, every other PostgresError goes to
\* _rollback_raise_error.
FetchSwallowed(outcome) == outcome = "ProgrammingError"

ResultRows(sql) ==
    CASE sql = "SELECT" ->
            << <<PyStr(<<"f", "o", "o">>), PyInt(2)>>, <<PyStr(<<"b">>), PyInt(4)>> >>
      [] sql = "INSERT_RETURNING" -> << <<PyInt(5)>> >>
      [] sql = "SELECT_TOKEN" -> << <<Placeholder(1), PyInt(7)>> >>
      [] OTHER -> << >>

(***************************************************************************)
(* flatten (chain.from_iterable): the rows' items in row-major order.      *)
(***************************************************************************)
RECURSIVE flatten(_)
flatten(list_of_lists) ==
    IF list_of_lists = << >> THEN << >>
    ELSE Head(list_of_lists) \o flatten(Tail(list_of_lists))

(***************************************************************************)
(* _check_sql_args: raises TypeError when sql_args is truthy and its type  *)
(* is not tuple, list or dict.  TRUE when the check passes.                *)
(***************************************************************************)
_check_sql_args(sql_args) ==
    ~ (Truthy(sql_args) /\ sql_args.t \notin {"tuple", "list", "dict"})

(***************************************************************************)
(* int(s) for a str given as its characters: an optional sign followed by  *)
(* one or more decimal digits; anything else raises ValueError.            *)
(***************************************************************************)
IsDigit(c) == \E d \in 1..10 : Digits[d] = c
DigitVal(c) == (CHOOSE d \in 1..10 : Digits[d] = c) - 1

RECURSIVE Decimal(_)
Decimal(chars) ==
    IF chars = << >> THEN 0
    ELSE 10 * Decimal(SubSeq(chars, 1, Len(chars) - 1)) + DigitVal(chars[Len(chars)])

int(chars) ==
    LET signed == Len(chars) > 0 /\ chars[1] \in {"-", "+"}
        body == IF signed THEN Tail(chars) ELSE chars
        ok == Len(body) > 0 /\ \A k \in 1..Len(body) : IsDigit(body[k])
    IN  [ok |-> ok,
         val |-> IF ~ ok THEN 0
                 ELSE IF signed /\ chars[1] = "-" THEN 0 - Decimal(body)
                 ELSE Decimal(body)]

(***************************************************************************)
(* results[result_pos] with Python's indexing: a negative index counts     *)
(* from the end; outside -len..len-1 it raises IndexError.                 *)
(***************************************************************************)
InRange(results, result_pos) ==
    /\ result_pos < Len(results)
    /\ result_pos >= 0 - Len(results)

\* results[result_pos] counted from the wrong end.
GetItem_from_end(results, result_pos) ==
    IF result_pos >= 0 THEN results[Len(results) - result_pos]
    ELSE results[0 - result_pos]

GetItem(results, result_pos) ==
    IF result_pos >= 0 THEN results[result_pos + 1]
    ELSE results[Len(results) + result_pos + 1]

(***************************************************************************)
(* list(sql_args): the items of a list or tuple, the keys of a dict, the   *)
(* characters of a str; any other value is not iterable (TypeError).       *)
(***************************************************************************)
Iterable(sql_args) == sql_args.t \in {"list", "tuple", "dict", "str"}

list(sql_args) ==
    CASE sql_args.t \in {"list", "tuple"} -> sql_args.v
      [] sql_args.t = "dict" -> [k \in 1..Len(sql_args.v) |-> sql_args.v[k][1]]
      [] sql_args.t = "str" -> [k \in 1..Len(sql_args.v) |-> PyStr(<<sql_args.v[k]>>)]
      [] OTHER -> << >>

(***************************************************************************)
(* The placeholder scan of execute_queue over list(sql_args), from         *)
(* position pos on (1-based).  An argument that is a str whose first       *)
(* character is "{" and whose last is "}" is replaced by                   *)
(* results[int(arg[1:-1])].  exc is "none" or the exception that ends the  *)
(* scan: IndexError (arg[0] of the empty str), ValueError (int), or        *)
(* GDExecutionError (no such result).                                      *)
(***************************************************************************)
\* The scan looking again at the value it has just put in place of a
\* placeholder.
RECURSIVE ScanArgs_rescan(_, _, _)
ScanArgs_rescan(sql_args, results, pos) ==
    IF pos > Len(sql_args)
    THEN [exc |-> "none", args |-> sql_args, clear_res |-> FALSE]
    ELSE LET arg == sql_args[pos]
             n == Len(arg.v)
             stop(e) == [exc |-> e, args |-> sql_args, clear_res |-> FALSE]
         IN  IF arg.t # "str" THEN ScanArgs_rescan(sql_args, results, pos + 1)
             ELSE IF n = 0 THEN stop("IndexError")
             ELSE IF ~ (arg.v[1] = "{" /\ arg.v[n] = "}")
                  THEN ScanArgs_rescan(sql_args, results, pos + 1)
             ELSE LET result_pos == int(SubSeq(arg.v, 2, n - 1))
                  IN  IF ~ result_pos.ok THEN stop("ValueError")
                      ELSE IF ~ InRange(results, result_pos.val)
                           THEN stop("GDExecutionError")
                      ELSE [ScanArgs_rescan(
                                [sql_args EXCEPT ![pos] = GetItem(results, result_pos.val)],
                                results, pos)
                            EXCEPT !.clear_res = TRUE]

RECURSIVE ScanArgs(_, _, _)
ScanArgs(sql_args, results, pos) ==
    IF pos > Len(sql_args)
    THEN [exc |-> "none", args |-> sql_args, clear_res |-> FALSE]
    ELSE LET arg == sql_args[pos]
             n == Len(arg.v)
             stop(e) == [exc |-> e, args |-> sql_args, clear_res |-> FALSE]
         IN  IF arg.t # "str" THEN ScanArgs(sql_args, results, pos + 1)
             ELSE IF n = 0 THEN stop("IndexError")
             ELSE IF ~ (arg.v[1] = "{" /\ arg.v[n] = "}")
                  THEN ScanArgs(sql_args, results, pos + 1)
             ELSE LET result_pos == int(SubSeq(arg.v, 2, n - 1))
                  IN  IF ~ result_pos.ok THEN stop("ValueError")
                      ELSE IF ~ InRange(results, result_pos.val)
                           THEN stop("GDExecutionError")
                      ELSE [ScanArgs([sql_args EXCEPT ![pos] = GetItem(results, result_pos.val)],
                                     results, pos + 1)
                            EXCEPT !.clear_res = TRUE]

(***************************************************************************)
(* Calls made on the driver, in order, by one operation of the handler.    *)
(***************************************************************************)
Call(name) == [call |-> name, sql |-> "", args |-> PyNone]
ExecuteCall(sql, sql_args) == [call |-> "execute", sql |-> sql, args |-> sql_args]
ExecuteManyCall(sql, sql_args_list) ==
    [call |-> "executemany", sql |-> sql, args |-> sql_args_list]

(***************************************************************************)
(* _open_connection: the arguments of connect, as a dict from the keyword  *)
(* to the gd_config attribute that supplies it.                            *)
(***************************************************************************)
INIT_ADMIN_OPTS == {"no_admin", "admin_with_database", "admin_without_database"}

ConnectArgs(mode) ==
    LET user == IF mode # "no_admin" THEN "admin_user" ELSE "user"
        password == IF mode # "no_admin" THEN "admin_password" ELSE "password"
        args == << <<"user", user>>, <<"password", password>>,
                   <<"host", "host">>, <<"port", "port">> >>
    IN  PyDict(IF mode = "admin_without_database" THEN args
               ELSE Append(args, <<"database", "database">>))

ConnectCall(mode) == [call |-> "connect", sql |-> "", args |-> ConnectArgs(mode)]

(***************************************************************************)
(* The connection's transaction.  An effect is the change made by the      *)
(* statement at position pos of the run-th call of execute_queue; it is    *)
(* pending until a commit makes it persistent or a rollback discards it.   *)
(* With isolation level autocommit the server commits each statement as    *)
(* it is executed.                                                         *)
(***************************************************************************)
Effect(run, pos) == [run |-> run, pos |-> pos]

\* self._connection.rollback()
rollback(st) ==
    [st EXCEPT !.calls = Append(@, Call("rollback")), !.pending = {}]

\* self._connection.commit()
commit(st) ==
    [st EXCEPT !.calls = Append(@, Call("commit")),
               !.committed = @ \cup st.pending,
               !.pending = {}]

\* _rollback_raise_error without its rollback.
_rollback_raise_error_no_rollback(st) ==
    [st EXCEPT !.deleted = TRUE, !.exc = "GDExecutionError"]

\* _rollback_raise_error: rollback, del self.queues[queue], raise.
_rollback_raise_error(st) ==
    [rollback(st) EXCEPT !.deleted = TRUE, !.exc = "GDExecutionError"]

\* cur.execute(sql, sql_args) when the driver accepts the statement.
DriverExecute(st, sql, sql_args, run, pos) ==
    LET eff == IF HasEffect(sql) THEN {Effect(run, pos)} ELSE {}
    IN  [st EXCEPT !.calls = Append(@, ExecuteCall(sql, sql_args)),
                   !.pending = IF st.isolation = "autocommit" THEN @ ELSE @ \cup eff,
                   !.committed = IF st.isolation = "autocommit" THEN @ \cup eff ELSE @]

(***************************************************************************)
(* "wipe out results if needed": the Result Buffer after the scan.         *)
(***************************************************************************)
\* The Result Buffer never wiped.
WipeResults_never(results, clear_res) == results

WipeResults(results, clear_res) == IF clear_res THEN << >> ELSE results

\* The results replaced by the last result set instead of extended.
ExtendResults_replace(results, res) == flatten(res)

\* results.extend(flatten(res))
ExtendResults(results, res) == results \o flatten(res)

(***************************************************************************)
(* One iteration of the loop of execute_queue, on the entry at position    *)
(* pos of the queue.  st is the state of the call: the Result Buffer       *)
(* (results), the driver calls so far, the transaction, the exception      *)
(* raised (exc) with the position and the stage ("scan", "execute" or      *)
(* "fetch") at which it was raised, whether the queue entry has been       *)
(* deleted, and the Result Buffer as it was after each completed entry     *)
(* (buffers).                                                              *)
(***************************************************************************)
Raise(st, e, pos, stage) == [st EXCEPT !.exc = e, !.pos = pos, !.stage = stage]

ExecuteEntry(st, entry, run, pos) ==
    LET sql == entry[1]
        sql_args == entry[2]
    IN  IF sql_args.t # "none" /\ ~ Iterable(sql_args)
        THEN Raise(st, "TypeError", pos, "scan")
        ELSE
        LET scan == IF sql_args.t = "none"
                    THEN [exc |-> "none", args |-> << >>, clear_res |-> FALSE]
                    ELSE ScanArgs(list(sql_args), st.results, 1)
            sent == IF sql_args.t = "none" THEN PyNone ELSE PyList(scan.args)
            \* wipe out results if needed
            st1 == [st EXCEPT !.results = WipeResults(@, scan.clear_res)]
            \* fire off the SQL command
            st2 == DriverExecute(st1, sql, sent, run, pos)
            \* fetch results if available
            st3 == [st2 EXCEPT !.calls = Append(@, Call("fetchall"))]
            st4 == IF FetchOutcome(sql) = "rows"
                   THEN [st3 EXCEPT !.results = ExtendResults(@, ResultRows(sql))]
                   ELSE st3
        IN  IF scan.exc # "none" THEN Raise(st, scan.exc, pos, "scan")
            ELSE IF ExecuteRaises(sql, sent) # "none"
                 THEN Raise(_rollback_raise_error(
                                [st1 EXCEPT !.calls = Append(@, ExecuteCall(sql, sent))]),
                            "GDExecutionError", pos, "execute")
            ELSE IF FetchOutcome(sql) = "rows" \/ FetchSwallowed(FetchOutcome(sql))
                 THEN [st4 EXCEPT !.buffers = Append(@, st4.results)]
            ELSE Raise(_rollback_raise_error(st3), "GDExecutionError", pos, "fetch")

RECURSIVE RunEntries(_, _, _, _)
RunEntries(st, entries, run, pos) ==
    IF st.exc # "none" \/ pos > Len(entries) THEN st
    ELSE RunEntries(ExecuteEntry(st, entries[pos], run, pos), entries, run, pos + 1)

\* execute_queue committing whether or not a statement raised.
RunQueue_commit_always(st, entries, run) ==
    LET done == RunEntries(st, entries, run, 1)
    IN  IF done.exc # "none" THEN commit(done)
        ELSE [commit(done) EXCEPT !.deleted = TRUE]

\* execute_queue leaving the queue in place after the commit.
RunQueue_keep_queue(st, entries, run) ==
    LET done == RunEntries(st, entries, run, 1)
    IN  IF done.exc # "none" THEN done
        ELSE commit(done)

\* The body of execute_queue once the cursor is held: the loop, then the
\* commit and the deletion of the queue when no statement raised.
RunQueue(st, entries, run) ==
    LET done == RunEntries(st, entries, run, 1)
    IN  IF done.exc # "none" THEN done
        ELSE [commit(done) EXCEPT !.deleted = TRUE]

(***************************************************************************)
(* State of the handler and of the database it is connected to.            *)
(*   queues     self.queues: queue name -> list of (sql, sql_args)         *)
(*   closed     self._connection.closed                                    *)
(*   isolation  self._connection.isolation_level                           *)
(*   pending    effects of the connection's open transaction               *)
(*   committed  effects the database has made persistent                   *)
(*   runs       number of execute_queue calls that reached the driver      *)
(*   appended   number of entries in the queues created so far             *)
(*   last       the last call on the handler: operation, queue name,       *)
(*              arguments of add_to_queue (input), run, exception raised   *)
(*              ("none" if it returned) with its position and stage,       *)
(*              value returned, driver calls made, Result Buffer after     *)
(*              each completed entry, self.queues as it was before, the    *)
(*              admin argument of __init__ and the value given to the      *)
(*              autocommit setter                                          *)
(*   admin      self.admin, "" while no handler has been constructed       *)
(*   callers    the callers that run execute_queue side by side: whether   *)
(*              they take turns (serialized) and, for each, the place it   *)
(*              has reached in execute_queue and the locals of its call    *)
(***************************************************************************)
VARIABLES queues, closed, isolation, pending, committed, runs, appended, last,
          admin, callers

vars == <<queues, closed, isolation, pending, committed, runs, appended, last,
          admin, callers>>

QueueNames == {"q1", "q2"}

\* Argument sets used by the callers of the model.
Args2 == PyTuple(<<PyInt(2)>>)
ArgsRef1 == PyList(<<Placeholder(1), PyInt(7)>>)
ArgsRef03 == PyTuple(<<Placeholder(0), Placeholder(3)>>)
ArgsRef0 == PyTuple(<<Placeholder(0)>>)

\* The calls add_to_queue(queue, sql, sql_args, many) made by the callers.
AddInput(sql, sql_args, many) == [sql |-> sql, sql_args |-> sql_args, many |-> many]

AddInputs ==
    { AddInput("INSERT", Args2, FALSE),
      AddInput("SELECT", PyNone, FALSE),
      AddInput("UPDATE", ArgsRef0, FALSE),
      AddInput("NO_TABLE", PyNone, FALSE),
      AddInput("INSERT", PyInt(7), FALSE),
      AddInput("INSERT", PyStr(<<"a", "b">>), FALSE),
      AddInput("UPDATE", PyList(<<ArgsRef03, ArgsRef0>>), TRUE),
      AddInput("UPDATE", PyList(<<ArgsRef0, PyInt(7), ArgsRef03>>), TRUE),
      AddInput("INSERT", PyList(<<Args2>>), TRUE),
      AddInput("INSERT", PyTuple(<< >>), TRUE),
      AddInput("INSERT", PyNone, TRUE) }

\* Entries that add_to_queue accepts, for the queues of InitQueue.
QueueEntries ==
    { <<"INSERT", Args2>>, <<"SELECT", PyNone>>, <<"INSERT_RETURNING", ArgsRef1>>,
      <<"UPDATE", ArgsRef03>>, <<"UPDATE", ArgsRef0>>, <<"NO_TABLE", PyNone>> }

NoInput == AddInput("", PyNone, FALSE)

\* No caller is inside execute_queue.
NoCallers == << >>

NoCall == [op |-> "init", queue |-> "", input |-> NoInput, run |-> 0,
           exc |-> "none", pos |-> 0, stage |-> "", ret |-> << >>,
           calls |-> << >>, buffers |-> << >>, before |-> << >>,
           admin |-> "", value |-> PyNone]

Init ==
    /\ queues = << >>
    /\ closed = FALSE
    /\ isolation = "read_committed"
    /\ pending = {}
    /\ committed = {}
    /\ runs = 0
    /\ appended = 0
    /\ last = NoCall
    /\ admin = "no_admin"
    /\ callers = NoCallers

\* self.queues[queue_name] = [] and del self.queues[queue]
WithQueue(qs, name, entries) ==
    [n \in DOMAIN qs \cup {name} |-> IF n = name THEN entries ELSE qs[n]]

\* del self.queues[queue] emptying the whole dictionary.
WithoutQueue_all(qs, name) == << >>

WithoutQueue(qs, name) == [n \in DOMAIN qs \ {name} |-> qs[n]]

\* list_queues
list_queues == DOMAIN queues

(***************************************************************************)
(* create_queue(queue_name)                                                *)
(***************************************************************************)
\* create_queue without the check that the name is free.
create_queue_overwrite(queue_name) ==
    /\ queues' = WithQueue(queues, queue_name, << >>)
    /\ last' = [NoCall EXCEPT !.op = "create_queue", !.queue = queue_name,
                              !.before = queues]
    /\ UNCHANGED <<closed, isolation, pending, committed, runs, appended, admin, callers>>

create_queue(queue_name) ==
    LET call == [NoCall EXCEPT !.op = "create_queue", !.queue = queue_name,
                               !.before = queues]
    IN
    /\ IF queue_name \in DOMAIN queues
       THEN /\ queues' = queues
            /\ last' = [call EXCEPT !.exc = "KeyError"]
       ELSE /\ queues' = WithQueue(queues, queue_name, << >>)
            /\ last' = call
    /\ UNCHANGED <<closed, isolation, pending, committed, runs, appended, admin, callers>>

(***************************************************************************)
(* add_to_queue(queue, sql, sql_args, many): the loop appends the argument *)
(* sets one by one and stops at the first that _check_sql_args refuses.    *)
(***************************************************************************)
\* add_to_queue's loop stopping after the first argument set.
AppendChecked_one(entries, sql, arg_sets, k) ==
    IF k > Len(arg_sets) THEN [exc |-> "none", entries |-> entries]
    ELSE IF ~ _check_sql_args(arg_sets[k]) THEN [exc |-> "TypeError", entries |-> entries]
    ELSE [exc |-> "none", entries |-> Append(entries, <<sql, arg_sets[k]>>)]

\* add_to_queue's loop inserting at the head of the queue.
RECURSIVE AppendChecked_at_head(_, _, _, _)
AppendChecked_at_head(entries, sql, arg_sets, k) ==
    IF k > Len(arg_sets) THEN [exc |-> "none", entries |-> entries]
    ELSE IF ~ _check_sql_args(arg_sets[k]) THEN [exc |-> "TypeError", entries |-> entries]
    ELSE AppendChecked_at_head(<< <<sql, arg_sets[k]>> >> \o entries, sql, arg_sets, k + 1)

RECURSIVE AppendChecked(_, _, _, _)
AppendChecked(entries, sql, arg_sets, k) ==
    IF k > Len(arg_sets) THEN [exc |-> "none", entries |-> entries]
    ELSE IF ~ _check_sql_args(arg_sets[k]) THEN [exc |-> "TypeError", entries |-> entries]
    ELSE AppendChecked(Append(entries, <<sql, arg_sets[k]>>), sql, arg_sets, k + 1)

add_to_queue(queue, sql, sql_args, many) ==
    LET call == [NoCall EXCEPT !.op = "add_to_queue", !.queue = queue,
                               !.input = AddInput(sql, sql_args, many),
                               !.before = queues]
    IN
    /\ IF queue \notin DOMAIN queues
       THEN /\ last' = [call EXCEPT !.exc = "KeyError"]
            /\ UNCHANGED <<queues, appended>>
       ELSE IF many /\ ~ Iterable(sql_args)
       THEN /\ last' = [call EXCEPT !.exc = "TypeError"]
            /\ UNCHANGED <<queues, appended>>
       ELSE LET arg_sets == IF many THEN list(sql_args) ELSE <<sql_args>>
                res == AppendChecked(queues[queue], sql, arg_sets, 1)
                n == Len(res.entries) - Len(queues[queue])
            IN  /\ appended + n <= MaxAppends
                /\ queues' = WithQueue(queues, queue, res.entries)
                /\ appended' = appended + n
                /\ last' = [call EXCEPT !.exc = res.exc]
    /\ UNCHANGED <<closed, isolation, pending, committed, runs, admin, callers>>

(***************************************************************************)
(* get_postgres_cursor: reopens a closed connection, then creates the      *)
(* cursor.  acq is what the driver does: "ok", "connect_fails" (connect    *)
(* raises) or "cursor_fails" (cursor creation raises).  A connection made  *)
(* by connect is open, in read-committed isolation, with no transaction.   *)
(***************************************************************************)
AcquireOutcomes == {"ok", "connect_fails", "cursor_fails"}

\* get_postgres_cursor reopening with the credentials of the normal user.
get_postgres_cursor_as_user(acq) ==
    LET reopen == closed
        connected == ~ (reopen /\ acq = "connect_fails")
        calls0 == IF reopen THEN <<ConnectCall("no_admin")>> ELSE << >>
    IN  [exc |-> IF acq = "ok" THEN "none" ELSE "GDConnectionError",
         calls |-> IF connected THEN Append(calls0, Call("cursor")) ELSE calls0,
         closed |-> IF reopen THEN ~ connected ELSE FALSE,
         isolation |-> IF reopen /\ connected THEN "read_committed" ELSE isolation,
         pending |-> IF reopen /\ connected THEN {} ELSE pending]

\* get_postgres_cursor letting the error of the driver through.
get_postgres_cursor_raw(acq) ==
    LET reopen == closed
        connected == ~ (reopen /\ acq = "connect_fails")
        calls0 == IF reopen THEN <<ConnectCall(admin)>> ELSE << >>
    IN  [exc |-> IF acq = "ok" THEN "none" ELSE "InterfaceError",
         calls |-> IF connected THEN Append(calls0, Call("cursor")) ELSE calls0,
         closed |-> IF reopen THEN ~ connected ELSE FALSE,
         isolation |-> IF reopen /\ connected THEN "read_committed" ELSE isolation,
         pending |-> IF reopen /\ connected THEN {} ELSE pending]

get_postgres_cursor(acq) ==
    LET reopen == closed
        connected == ~ (reopen /\ acq = "connect_fails")
        calls0 == IF reopen THEN <<ConnectCall(admin)>> ELSE << >>
    IN  [exc |-> IF acq = "ok" THEN "none" ELSE "GDConnectionError",
         calls |-> IF connected THEN Append(calls0, Call("cursor")) ELSE calls0,
         closed |-> IF reopen THEN ~ connected ELSE FALSE,
         isolation |-> IF reopen /\ connected THEN "read_committed" ELSE isolation,
         pending |-> IF reopen /\ connected THEN {} ELSE pending]

(***************************************************************************)
(* execute_queue(queue)                                                    *)
(***************************************************************************)
execute_queue(queue, acq) ==
    LET call == [NoCall EXCEPT !.op = "execute_queue", !.queue = queue, !.before = queues]
    IN
    IF queue \notin DOMAIN queues
    THEN /\ last' = [call EXCEPT !.exc = "KeyError"]
         /\ UNCHANGED <<queues, closed, isolation, pending, committed, runs, appended,
                        admin, callers>>
    ELSE /\ runs < MaxRuns
         /\ acq = "connect_fails" => closed
         /\ UNCHANGED <<appended, admin, callers>>
         /\ LET cur == get_postgres_cursor(acq)
                st0 == [results |-> << >>, buffers |-> << >>, calls |-> cur.calls,
                        pending |-> cur.pending, committed |-> committed,
                        isolation |-> cur.isolation, exc |-> cur.exc,
                        pos |-> 0, stage |-> IF cur.exc = "none" THEN "" ELSE "cursor",
                        deleted |-> FALSE]
                st == IF cur.exc # "none" THEN st0
                      ELSE RunQueue(st0, queues[queue], runs + 1)
            IN  /\ queues' = IF st.deleted THEN WithoutQueue(queues, queue) ELSE queues
                /\ closed' = cur.closed
                /\ isolation' = cur.isolation
                /\ pending' = st.pending
                /\ committed' = st.committed
                /\ runs' = runs + 1
                /\ last' = [call EXCEPT !.run = runs + 1, !.exc = st.exc,
                                        !.pos = st.pos, !.stage = st.stage,
                                        !.ret = IF st.exc = "none" THEN st.results ELSE << >>,
                                        !.calls = st.calls, !.buffers = st.buffers]

(***************************************************************************)
(* The autocommit setter.  set_isolation_level ends the transaction in     *)
(* progress, and raises InterfaceError on a closed connection.             *)
(***************************************************************************)
AutocommitValues == {PyBool(TRUE), PyBool(FALSE), PyInt(1)}

\* The setter selecting autocommit whatever the boolean.
set_autocommit_only_on(value) ==
    LET call == [NoCall EXCEPT !.op = "autocommit", !.before = queues, !.value = value]
    IN
    /\ IF value.t # "bool"
       THEN /\ last' = [call EXCEPT !.exc = "TypeError"]
            /\ UNCHANGED <<isolation, pending>>
       ELSE IF closed
       THEN /\ last' = [call EXCEPT !.exc = "InterfaceError"]
            /\ UNCHANGED <<isolation, pending>>
       ELSE /\ isolation' = "autocommit"
            /\ pending' = {}
            /\ last' = [call EXCEPT !.calls = <<Call("set_isolation_level")>>]
    /\ UNCHANGED <<queues, closed, committed, runs, appended, admin, callers>>

\* The setter taking the truth value of any value, without the isinstance
\* test.
set_autocommit_truthy(value) ==
    LET call == [NoCall EXCEPT !.op = "autocommit", !.before = queues, !.value = value]
    IN
    /\ IF closed
       THEN /\ last' = [call EXCEPT !.exc = "InterfaceError"]
            /\ UNCHANGED <<isolation, pending>>
       ELSE /\ isolation' = IF Truthy(value) THEN "autocommit" ELSE "read_committed"
            /\ pending' = {}
            /\ last' = [call EXCEPT !.calls = <<Call("set_isolation_level")>>]
    /\ UNCHANGED <<queues, closed, committed, runs, appended, admin, callers>>

set_autocommit(value) ==
    LET call == [NoCall EXCEPT !.op = "autocommit", !.before = queues, !.value = value]
    IN
    /\ IF value.t # "bool"
       THEN /\ last' = [call EXCEPT !.exc = "TypeError"]
            /\ UNCHANGED <<isolation, pending>>
       ELSE IF closed
       THEN /\ last' = [call EXCEPT !.exc = "InterfaceError"]
            /\ UNCHANGED <<isolation, pending>>
       ELSE /\ isolation' = IF value.v[1] THEN "autocommit" ELSE "read_committed"
            /\ pending' = {}
            /\ last' = [call EXCEPT !.calls = <<Call("set_isolation_level")>>]
    /\ UNCHANGED <<queues, closed, committed, runs, appended, admin, callers>>

\* The autocommit getter.
autocommit == isolation = "autocommit"

(***************************************************************************)
(* The connection is closed (by the server, the network or the caller);    *)
(* the database discards its open transaction.                             *)
(***************************************************************************)
close_connection ==
    /\ ~ closed
    /\ closed' = TRUE
    /\ pending' = {}
    /\ UNCHANGED <<queues, isolation, committed, runs, appended, last, admin, callers>>

(***************************************************************************)
(* __init__(admin): refuses an admin value outside INIT_ADMIN_OPTS before  *)
(* anything else, then opens the connection.  connect_ok is whether the    *)
(* driver's connect succeeds.  admin = "" is the state in which no handler *)
(* has been constructed; a construction that raises leaves no handler.     *)
(***************************************************************************)
InitModes == INIT_ADMIN_OPTS \cup {"not a valid value"}

Constructed == admin # ""

__init__(mode, connect_ok) ==
    LET call == [NoCall EXCEPT !.op = "__init__", !.admin = mode]
    IN
    /\ ~ Constructed
    /\ IF mode \notin INIT_ADMIN_OPTS
       THEN /\ last' = [call EXCEPT !.exc = "GDConnectionError", !.stage = "admin"]
            /\ UNCHANGED <<queues, closed, isolation, admin>>
       ELSE IF ~ connect_ok
       THEN /\ last' = [call EXCEPT !.exc = "GDConnectionError", !.stage = "connect",
                                    !.calls = <<ConnectCall(mode)>>]
            /\ UNCHANGED <<queues, closed, isolation, admin>>
       ELSE /\ last' = [call EXCEPT !.calls = <<ConnectCall(mode)>>]
            /\ admin' = mode
            /\ closed' = FALSE
            /\ isolation' = "read_committed"
            /\ queues' = << >>
    /\ UNCHANGED <<pending, committed, runs, appended, callers>>

(***************************************************************************)
(* _sql_executor(sql, sql_args, many) and the four operations built on it. *)
(* fetch is the call made on the cursor inside the with block: "none"      *)
(* (execute, executemany), "fetchone" or "fetchall".  The result is the    *)
(* state of the call: the exception raised (exc) and where ("validate",    *)
(* "cursor", "execute" or "fetch"), the driver calls made, the connection  *)
(* and its transaction, and the value returned (ret, a list of rows).      *)
(***************************************************************************)
\* "Check that sql arguments have the correct type": TRUE when no TypeError
\* is raised.  With many, iterating sql_args raises TypeError when it is not
\* iterable.
CheckExecutorArgs(sql_args, many) ==
    IF many
    THEN /\ Iterable(sql_args)
         /\ \A k \in 1..Len(list(sql_args)) : _check_sql_args(list(sql_args)[k])
    ELSE _check_sql_args(sql_args)

\* cur.executemany(sql, sql_args_list): the statement is executed with each
\* argument set in turn, up to the first that raises.
DriverExecuteMany(st, sql, sql_args_list, run) ==
    LET sets == list(sql_args_list)
        bad == {k \in 1..Len(sets) : ExecuteRaises(sql, sets[k]) # "none"}
        stop == IF bad = {} THEN Len(sets) + 1
                ELSE CHOOSE k \in bad : \A j \in bad : k <= j
        eff == IF HasEffect(sql) THEN {Effect(run, k) : k \in 1..(stop - 1)} ELSE {}
    IN  [st EXCEPT !.calls = Append(@, ExecuteManyCall(sql, sql_args_list)),
                   !.pending = IF st.isolation = "autocommit" THEN @ ELSE @ \cup eff,
                   !.committed = IF st.isolation = "autocommit" THEN @ \cup eff ELSE @,
                   !.exc = IF bad = {} THEN "none" ELSE ExecuteRaises(sql, sets[stop])]

\* The except clause of _sql_executor raising without the rollback.
ExecutorRaise_no_rollback(st, e, stage) ==
    IF IsPostgresError(e)
    THEN [st EXCEPT !.exc = "GDExecutionError", !.stage = stage]
    ELSE [st EXCEPT !.exc = e, !.stage = stage]

\* The except clause of _sql_executor: a PostgresError is rolled back and
\* raised as GDExecutionError; any other exception leaves the with block
\* as it is.
ExecutorRaise(st, e, stage) ==
    IF IsPostgresError(e)
    THEN [rollback(st) EXCEPT !.exc = "GDExecutionError", !.stage = stage]
    ELSE [st EXCEPT !.exc = e, !.stage = stage]

\* execute(): cur.execute or cur.executemany on the cursor held.
ExecutorExecute(held, sql, sql_args, many, run) ==
    IF many THEN DriverExecuteMany(held, sql, sql_args, run)
    ELSE IF ExecuteRaises(sql, sql_args) = "none"
         THEN DriverExecute(held, sql, sql_args, run, 1)
    ELSE [held EXCEPT !.calls = Append(@, ExecuteCall(sql, sql_args)),
                      !.exc = ExecuteRaises(sql, sql_args)]

\* yield cur: the body of the caller's with block, which fetches or passes,
\* then the else clause (commit) or the except clause.
ExecutorYield(ran, sql, fetch) ==
    IF ran.exc # "none" THEN ExecutorRaise(ran, ran.exc, "execute")
    ELSE IF fetch = "none" THEN commit(ran)
    ELSE IF FetchOutcome(sql) = "rows"
         THEN [commit([ran EXCEPT !.calls = Append(@, Call(fetch))])
                   EXCEPT !.ret = IF fetch = "fetchone"
                                  THEN SubSeq(ResultRows(sql), 1, 1)
                                  ELSE ResultRows(sql)]
    ELSE ExecutorRaise([ran EXCEPT !.calls = Append(@, Call(fetch))],
                       FetchOutcome(sql), "fetch")

\* with self.get_postgres_cursor() as cur: cur is what the acquisition gave.
ExecutorWithCursor(st, cur, sql, sql_args, many, fetch, run) ==
    IF cur.exc # "none"
    THEN [st EXCEPT !.calls = cur.calls, !.closed = cur.closed,
                    !.isolation = cur.isolation, !.pending = cur.pending,
                    !.exc = cur.exc, !.stage = "cursor"]
    ELSE ExecutorYield(
             ExecutorExecute([st EXCEPT !.calls = cur.calls, !.closed = cur.closed,
                                        !.isolation = cur.isolation,
                                        !.pending = cur.pending],
                             sql, sql_args, many, run),
             sql, fetch)

\* The state of a call of the Statement Executor when it starts.
ExecutorStart ==
    [exc |-> "none", stage |-> "", calls |-> << >>, closed |-> closed,
     isolation |-> isolation, pending |-> pending, committed |-> committed,
     ret |-> << >>]

_sql_executor(sql, sql_args, many, fetch, acq, run) ==
    IF ~ CheckExecutorArgs(sql_args, many)
    THEN [ExecutorStart EXCEPT !.exc = "TypeError", !.stage = "validate"]
    ELSE ExecutorWithCursor(ExecutorStart, get_postgres_cursor(acq),
                            sql, sql_args, many, fetch, run)

\* The handler and the connection after a call of the Statement Executor
\* that ended in state r.  A call that fails validation does not reach the
\* driver and is not counted in runs.
ExecutorReturn(op, sql, sql_args, many, acq, r) ==
    /\ r.stage # "validate" => runs < MaxRuns
    /\ acq = "connect_fails" => r.stage # "validate" /\ closed
    /\ acq = "cursor_fails" => r.stage # "validate"
    /\ runs' = IF r.stage # "validate" THEN runs + 1 ELSE runs
    /\ closed' = r.closed
    /\ isolation' = r.isolation
    /\ pending' = r.pending
    /\ committed' = r.committed
    /\ last' = [NoCall EXCEPT !.op = op, !.input = AddInput(sql, sql_args, many),
                              !.before = queues,
                              !.run = IF r.stage # "validate" THEN runs + 1 ELSE 0,
                              !.exc = r.exc, !.stage = r.stage,
                              !.ret = r.ret, !.calls = r.calls]
    /\ UNCHANGED <<queues, appended, admin, callers>>

\* One call of an operation of the Statement Executor on the handler.
ExecutorCall(op, sql, sql_args, many, fetch, acq) ==
    ExecutorReturn(op, sql, sql_args, many, acq,
                   _sql_executor(sql, sql_args, many, fetch, acq, runs + 1))

execute(sql, sql_args, acq) ==
    ExecutorCall("execute", sql, sql_args, FALSE, "none", acq)

executemany(sql, sql_args_list, acq) ==
    ExecutorCall("executemany", sql, sql_args_list, TRUE, "none", acq)

execute_fetchone(sql, sql_args, acq) ==
    ExecutorCall("execute_fetchone", sql, sql_args, FALSE, "fetchone", acq)

execute_fetchall(sql, sql_args, acq) ==
    ExecutorCall("execute_fetchall", sql, sql_args, FALSE, "fetchall", acq)

Next ==
    \/ \E queue_name \in QueueNames : create_queue(queue_name)
    \/ \E queue \in QueueNames, a \in AddInputs :
           add_to_queue(queue, a.sql, a.sql_args, a.many)
    \/ \E queue \in QueueNames, acq \in AcquireOutcomes : execute_queue(queue, acq)
    \/ \E value \in AutocommitValues : set_autocommit(value)
    \/ close_connection

Spec == Init /\ [][Next]_vars

(***************************************************************************)
(* The queue engine on its own: the handler once its callers have created  *)
(* queue q1 and appended up to MaxQueueLen entries to it; from there the   *)
(* queue is executed, queues are created, autocommit is toggled and the    *)
(* connection is closed.                                                   *)
(***************************************************************************)
RECURSIVE SeqsUpTo(_, _)
SeqsUpTo(S, n) ==
    IF n = 0 THEN {<< >>}
    ELSE LET shorter == SeqsUpTo(S, n - 1)
         IN  shorter \cup {Append(q, e) : q \in shorter, e \in S}

InitQueue ==
    /\ \E entries \in SeqsUpTo(QueueEntries, MaxQueueLen) :
           /\ queues = WithQueue(<< >>, "q1", entries)
           /\ appended = Len(entries)
    /\ closed = FALSE
    /\ isolation = "read_committed"
    /\ pending = {}
    /\ committed = {}
    /\ runs = 0
    /\ last = NoCall
    /\ admin = "no_admin"
    /\ callers = NoCallers

NextQueue ==
    \/ \E queue_name \in QueueNames : create_queue(queue_name)
    \/ \E queue \in QueueNames, acq \in AcquireOutcomes : execute_queue(queue, acq)
    \/ \E value \in AutocommitValues : set_autocommit(value)
    \/ close_connection

SpecQueue == InitQueue /\ [][NextQueue]_vars

(***************************************************************************)
(* The queue engine on queues whose statements differ in what their fetch  *)
(* does: rows, no result set, or a result set that cannot be decoded.      *)
(***************************************************************************)
FetchEntries ==
    { <<"INSERT", Args2>>, <<"SELECT", PyNone>>, <<"UPDATE", ArgsRef0>>,
      <<"SELECT_UNDECODABLE", PyNone>> }

InitFetch ==
    /\ \E entries \in SeqsUpTo(FetchEntries, MaxQueueLen) :
           /\ queues = WithQueue(<< >>, "q1", entries)
           /\ appended = Len(entries)
    /\ closed = FALSE
    /\ isolation = "read_committed"
    /\ pending = {}
    /\ committed = {}
    /\ runs = 0
    /\ last = NoCall
    /\ admin = "no_admin"
    /\ callers = NoCallers

SpecFetch == InitFetch /\ [][NextQueue]_vars

(***************************************************************************)
(* The whole handler, from its construction: a caller constructs it with   *)
(* some admin value, then runs statements through the Statement Executor,  *)
(* builds and executes queues, toggles autocommit; the connection can be   *)
(* closed at any time.                                                     *)
(***************************************************************************)
ArgsTwo == PyTuple(<<PyInt(1), PyInt(2)>>)
ArgsDict == PyDict(<< <<PyStr(<<"a">>), PyInt(2)>> >>)

\* The calls execute(sql, sql_args).
ExecInputs ==
    { AddInput("INSERT", Args2, FALSE),
      AddInput("INSERT", ArgsTwo, FALSE),
      AddInput("INSERT", ArgsDict, FALSE),
      AddInput("SELECT", PyNone, FALSE),
      AddInput("SELECT", PyList(<< >>), FALSE),
      AddInput("SELECT", PyStr(<< >>), FALSE),
      AddInput("SELECT", PyInt(0), FALSE),
      AddInput("SELECT", PyInt(7), FALSE),
      AddInput("SELECT", PyStr(<<"a", "b">>), FALSE),
      AddInput("NO_TABLE", PyNone, FALSE) }

\* The calls execute_fetchone and execute_fetchall(sql, sql_args).
FetchInputs ==
    { AddInput("SELECT", PyNone, FALSE),
      AddInput("INSERT", Args2, FALSE),
      AddInput("INSERT_RETURNING", Args2, FALSE),
      AddInput("SELECT", PyStr(<< >>), FALSE),
      AddInput("SELECT", PyInt(7), FALSE),
      AddInput("SELECT_UNDECODABLE", PyNone, FALSE),
      AddInput("NO_TABLE", PyNone, FALSE) }

\* The calls executemany(sql, sql_args_list).
ManyInputs ==
    { AddInput("INSERT", PyList(<<Args2, Args2>>), TRUE),
      AddInput("INSERT", PyList(<<Args2, ArgsTwo>>), TRUE),
      AddInput("INSERT", PyList(<<Args2, PyInt(7)>>), TRUE),
      AddInput("INSERT", PyList(<<Args2, PyInt(0)>>), TRUE),
      AddInput("INSERT", PyTuple(<< >>), TRUE),
      AddInput("INSERT", PyInt(7), TRUE),
      AddInput("NO_TABLE", PyList(<<Args2>>), TRUE) }

\* The queue of this caller and its calls add_to_queue(queue, sql, sql_args).
HandlerQueues == {"q1"}

HandlerAddInputs == { AddInput("INSERT", Args2, FALSE) }

InitHandler ==
    /\ queues = << >>
    /\ closed = TRUE
    /\ isolation = "read_committed"
    /\ pending = {}
    /\ committed = {}
    /\ runs = 0
    /\ appended = 0
    /\ last = NoCall
    /\ admin = ""
    /\ callers = NoCallers

NextHandler ==
    \/ \E mode \in InitModes, connect_ok \in BOOLEAN : __init__(mode, connect_ok)
    \/ \E a \in ExecInputs, acq \in AcquireOutcomes :
           Constructed /\ execute(a.sql, a.sql_args, acq)
    \/ \E a \in ManyInputs, acq \in AcquireOutcomes :
           Constructed /\ executemany(a.sql, a.sql_args, acq)
    \/ \E a \in FetchInputs, acq \in AcquireOutcomes :
           Constructed /\ execute_fetchone(a.sql, a.sql_args, acq)
    \/ \E a \in FetchInputs, acq \in AcquireOutcomes :
           Constructed /\ execute_fetchall(a.sql, a.sql_args, acq)
    \/ \E queue_name \in HandlerQueues : Constructed /\ create_queue(queue_name)
    \/ \E queue \in HandlerQueues, a \in HandlerAddInputs :
           Constructed /\ add_to_queue(queue, a.sql, a.sql_args, a.many)
    \/ \E queue \in HandlerQueues, acq \in AcquireOutcomes :
           Constructed /\ execute_queue(queue, acq)
    \/ \E value \in AutocommitValues : Constructed /\ set_autocommit(value)
    \/ Constructed /\ close_connection

SpecHandler == InitHandler /\ [][NextHandler]_vars

(***************************************************************************)
(* Two callers that each run execute_queue on a queue of their own, on the *)
(* same handler, without a lock in the handler.  Their calls interleave at *)
(* statement granularity: entering (the check of the queue and the         *)
(* cursor), each iteration of the loop, and the final commit with the      *)
(* deletion of the queue are the steps.  The connection and its            *)
(* transaction are shared; results, clear_res and the cursor are locals    *)
(* of each call.  When callers.serialized holds the callers impose their   *)
(* own mutual exclusion around the whole call.                             *)
(***************************************************************************)
MaxCallerLen == 2

Callers == {1, 2}

CallerQueue(c) == IF c = 1 THEN "q1" ELSE "q2"

CallerEntries ==
    { <<"INSERT", Args2>>, <<"NO_TABLE", PyNone>>, <<"UPDATE", ArgsRef0>> }

\* The locals of a call of execute_queue that has not started.
IdleCaller ==
    [pc |-> "idle", entries |-> << >>,
     st |-> [results |-> << >>, buffers |-> << >>, calls |-> << >>,
             pending |-> {}, committed |-> {}, isolation |-> "read_committed",
             exc |-> "none", pos |-> 0, stage |-> "", deleted |-> FALSE]]

InitCallers ==
    /\ \E e1 \in SeqsUpTo(CallerEntries, MaxCallerLen),
          e2 \in SeqsUpTo(CallerEntries, MaxCallerLen),
          serialized \in BOOLEAN :
           /\ queues = WithQueue(WithQueue(<< >>, "q1", e1), "q2", e2)
           /\ appended = Len(e1) + Len(e2)
           /\ callers = [serialized |-> serialized,
                         th |-> [c \in Callers |-> IdleCaller]]
    /\ closed = FALSE
    /\ isolation = "read_committed"
    /\ pending = {}
    /\ committed = {}
    /\ runs = 0
    /\ last = NoCall
    /\ admin = "no_admin"

\* The state of the call of caller c on the connection as it is now.
OnConnection(c) ==
    [callers.th[c].st EXCEPT !.pending = pending, !.committed = committed]

\* The locals of the call, without the connection's transaction.
Locals(st) == [st EXCEPT !.pending = {}, !.committed = {}]

\* The position of the entry the loop of caller c executes next.
NextPos(c) == Len(callers.th[c].st.buffers) + 1

\* self._check_queue_exists(queue); with self.get_postgres_cursor() as cur:
\* results = []
execute_queue_enter(c) ==
    LET cur == get_postgres_cursor("ok")
    IN  /\ callers.th[c].pc = "idle"
        /\ callers.serialized => \A o \in Callers \ {c} : callers.th[o].pc # "loop"
        /\ CallerQueue(c) \in DOMAIN queues
        /\ callers' = [callers EXCEPT !.th[c] =
                          [pc |-> "loop", entries |-> queues[CallerQueue(c)],
                           st |-> [IdleCaller.st EXCEPT !.calls = cur.calls]]]
        /\ UNCHANGED <<queues, closed, isolation, pending, committed, runs,
                       appended, last, admin>>

\* One iteration of "for sql, sql_args in self.queues[queue]".
execute_queue_statement(c) ==
    LET me == callers.th[c]
        st == ExecuteEntry(OnConnection(c), me.entries[NextPos(c)], c, NextPos(c))
    IN  /\ me.pc = "loop"
        /\ NextPos(c) <= Len(me.entries)
        /\ pending' = st.pending
        /\ committed' = st.committed
        /\ queues' = IF st.deleted THEN WithoutQueue(queues, CallerQueue(c)) ELSE queues
        /\ callers' = [callers EXCEPT !.th[c] =
                          [me EXCEPT !.pc = IF st.exc # "none" THEN "done" ELSE "loop",
                                     !.st = Locals(st)]]
        /\ UNCHANGED <<closed, isolation, runs, appended, last, admin>>

\* self._connection.commit(); del self.queues[queue]; return results
execute_queue_commit(c) ==
    LET me == callers.th[c]
        st == commit(OnConnection(c))
    IN  /\ me.pc = "loop"
        /\ NextPos(c) > Len(me.entries)
        /\ pending' = st.pending
        /\ committed' = st.committed
        /\ queues' = WithoutQueue(queues, CallerQueue(c))
        /\ callers' = [callers EXCEPT !.th[c] =
                          [me EXCEPT !.pc = "done",
                                     !.st = Locals([st EXCEPT !.deleted = TRUE])]]
        /\ UNCHANGED <<closed, isolation, runs, appended, last, admin>>

NextCallers ==
    \/ \E c \in Callers : execute_queue_enter(c)
    \/ \E c \in Callers : execute_queue_statement(c)
    \/ \E c \in Callers : execute_queue_commit(c)

SpecCallers == InitCallers /\ [][NextCallers]_vars

(***************************************************************************)
(* Properties.  They speak of the last call on the handler: the queue it   *)
(* named as stored before the call, and the statements it sent.            *)
(***************************************************************************)
IsExecute(c) == c.call = "execute"
IsCommit(c) == c.call = "commit"
IsRollback(c) == c.call = "rollback"
IsCursor(c) == c.call = "cursor"

\* The last call was an execute_queue on a live queue (it went past
\* _check_queue_exists).
IsRun == last.op = "execute_queue" /\ last.queue \in DOMAIN last.before

\* The queue the last call named, as stored before the call.
LastEntries == last.before[last.queue]

\* The execute calls of the last call, in the order sent.
Sent == SelectSeq(last.calls, IsExecute)

Count(calls, Test(_)) == Len(SelectSeq(calls, Test))

\* Effects of the statements of the last run, pending or committed.
RunEffects(effects) == {e \in effects : e.run = last.run}

\* An argument of the form the scan takes for a placeholder.
IsToken(arg) ==
    /\ arg.t = "str"
    /\ Len(arg.v) >= 2
    /\ arg.v[1] = "{"
    /\ arg.v[Len(arg.v)] = "}"

\* The items of a list or tuple of bound arguments.
Items(sql_args) == IF sql_args.t \in {"list", "tuple"} THEN sql_args.v ELSE << >>

\* The arguments sent for stored arguments: none for none, else as many
\* items, each item that is not a placeholder unchanged.
Matches(sent_args, sql_args) ==
    IF sql_args.t = "none" THEN sent_args = PyNone
    ELSE /\ sent_args.t = "list"
         /\ Len(sent_args.v) = Len(Items(sql_args))
         /\ \A i \in 1..Len(sent_args.v) :
                ~ IsToken(Items(sql_args)[i]) => sent_args.v[i] = Items(sql_args)[i]

\* The entries one call of add_to_queue is to append, in order.
CallEntries(input) ==
    IF input.many
    THEN [k \in 1..Len(Items(input.sql_args)) |-> <<input.sql, Items(input.sql_args)[k]>>]
    ELSE << <<input.sql, input.sql_args>> >>

(***************************************************************************)
(* C1.  Atomicity on statement failure.  In read-committed isolation, when *)
(* execute_queue fails because the driver rejects a statement, whatever    *)
(* the length of the queue and the position of the statement: the last     *)
(* call made on the driver before the error is a rollback, there is no     *)
(* commit, no effect of any statement of the queue is committed or left    *)
(* pending, the queue name is no longer live, and the error raised is      *)
(* GDExecutionError.                                                       *)
(***************************************************************************)
C1_AtomicOnStatementFailure ==
    (IsRun /\ last.stage = "execute" /\ isolation = "read_committed") =>
        /\ last.exc = "GDExecutionError"
        /\ IsRollback(last.calls[Len(last.calls)])
        /\ Count(last.calls, IsCommit) = 0
        /\ RunEffects(committed \cup pending) = {}
        /\ last.queue \notin list_queues

\* A queue of three statements whose third is rejected after two
\* statements that change the table have been executed.
C1_Witness ==
    /\ IsRun /\ last.stage = "execute" /\ isolation = "read_committed"
    /\ last.pos = 3
    /\ Len(Sent) = 3
    /\ HasEffect(Sent[1].sql) /\ HasEffect(Sent[2].sql)

(***************************************************************************)
(* C2.  Placeholder out of range aborts the queue.  When the scan finds a  *)
(* placeholder whose index is outside the Result Buffer, execute_queue     *)
(* issues a rollback, deletes the queue entry and raises GDExecutionError; *)
(* the statement and every later one are not executed and nothing is       *)
(* committed or left pending.                                              *)
(***************************************************************************)
C2_PlaceholderAbortsQueue ==
    (IsRun /\ last.stage = "scan" /\ last.exc = "GDExecutionError") =>
        /\ Count(last.calls, IsRollback) = 1
        /\ last.queue \notin list_queues
        /\ Len(Sent) = last.pos - 1
        /\ Count(last.calls, IsCommit) = 0
        /\ RunEffects(committed \cup pending) = {}

(***************************************************************************)
(* C3.  FIFO order.  A call of add_to_queue leaves the queue as it was     *)
(* followed by the entries of the call in the order given (all of them     *)
(* when it returns); the statements execute_queue sends are the stored     *)
(* entries from the first on, in order, each once; it sends them all when  *)
(* it returns, and none after the one that raises.                         *)
(***************************************************************************)
C3_FifoOrder ==
    /\ (last.op = "add_to_queue" /\ last.queue \in DOMAIN last.before) =>
           LET new == CallEntries(last.input)
               old == last.before[last.queue]
               n == Len(queues[last.queue]) - Len(old)
           IN  /\ n >= 0 /\ n <= Len(new)
               /\ queues[last.queue] = old \o SubSeq(new, 1, n)
               /\ last.exc = "none" => n = Len(new)
    /\ IsRun =>
           /\ Len(Sent) <= Len(LastEntries)
           /\ \A k \in 1..Len(Sent) :
                  /\ Sent[k].sql = LastEntries[k][1]
                  /\ Matches(Sent[k].args, LastEntries[k][2])
           /\ last.exc = "none" => Len(Sent) = Len(LastEntries)
           /\ last.stage \in {"execute", "fetch"} => Len(Sent) = last.pos
           /\ last.stage = "scan" => Len(Sent) = last.pos - 1
           /\ last.stage = "cursor" => Len(Sent) = 0

\* Two different entries appended by two calls have been sent in order.
C3_Witness ==
    /\ IsRun /\ last.exc = "none"
    /\ Len(Sent) = 2
    /\ Sent[1].sql = "INSERT" /\ Sent[2].sql = "SELECT"

(***************************************************************************)
(* The Result Buffer as the documentation describes it: the results of     *)
(* the statements since (and including) the last one that used a           *)
(* placeholder, each result set flattened in row-major order.              *)
(***************************************************************************)
RowMajor(rows) ==
    IF rows = << >> THEN << >>
    ELSE LET ncols == Len(rows[1])
         IN  [i \in 1..(Len(rows) * ncols) |->
                 rows[((i - 1) \div ncols) + 1][((i - 1) % ncols) + 1]]

OwnResults(entry) == RowMajor(ResultRows(entry[1]))

Consumes(entry) ==
    \E i \in 1..Len(Items(entry[2])) : IsToken(Items(entry[2])[i])

WindowStart(entries, k) ==
    LET consumers == {j \in 1..k : Consumes(entries[j])}
    IN  IF consumers = {} THEN 1
        ELSE CHOOSE j \in consumers : \A i \in consumers : i <= j

RECURSIVE Concat(_, _, _)
Concat(entries, from, to) ==
    IF from > to THEN << >>
    ELSE OwnResults(entries[from]) \o Concat(entries, from + 1, to)

\* The buffer after the first k entries have been executed.
Window(entries, k) == Concat(entries, WindowStart(entries, k), k)

\* The index between the braces of a placeholder.
TokenIndex(arg) == int(SubSeq(arg.v, 2, Len(arg.v) - 1))

\* Every placeholder of stored arguments with an index inside buf has been
\* replaced in the arguments sent by the item of buf at that index.
ResolvedFrom(sent_args, sql_args, buf) ==
    \A i \in 1..Len(Items(sql_args)) :
        LET arg == Items(sql_args)[i]
        IN  (/\ IsToken(arg)
             /\ TokenIndex(arg).ok
             /\ TokenIndex(arg).val >= 0
             /\ TokenIndex(arg).val < Len(buf))
            => sent_args.v[i] = buf[TokenIndex(arg).val + 1]

(***************************************************************************)
(* C4.  Placeholder resolution.  Every statement execute_queue sends has,  *)
(* in place of each placeholder {i} with 0 <= i < length of the buffer,    *)
(* the i-th item of the buffer, the buffer being the row-major flattening  *)
(* of the results of the statements executed since (and including) the     *)
(* last one that used a placeholder, or since the start of the queue;      *)
(* the other arguments are sent as stored.                                 *)
(***************************************************************************)
C4_PlaceholderResolution ==
    IsRun =>
        \A k \in 1..Len(Sent) :
            /\ Matches(Sent[k].args, LastEntries[k][2])
            /\ ResolvedFrom(Sent[k].args, LastEntries[k][2], Window(LastEntries, k - 1))

\* {0} in the third statement resolved to the value returned by the
\* second, which itself used a placeholder on the results of the first.
C4_Witness ==
    /\ IsRun
    /\ Len(Sent) = 3
    /\ LastEntries[1][1] = "SELECT"
    /\ LastEntries[2] = <<"INSERT_RETURNING", ArgsRef1>>
    /\ LastEntries[3] = <<"UPDATE", ArgsRef0>>
    /\ Sent[2].args = PyList(<<PyInt(2), PyInt(7)>>)
    /\ Sent[3].args = PyList(<<PyInt(5)>>)

(***************************************************************************)
(* C5.  Consumption resets the window.  A statement with placeholders has  *)
(* all of them resolved against the buffer as it was before the            *)
(* statement, and after it the buffer holds its own results only; a        *)
(* statement without placeholder leaves the buffer as it was, followed by  *)
(* its own results.  So a statement that follows a consuming statement     *)
(* without results cannot have a placeholder resolved.                     *)
(***************************************************************************)
C5_ConsumptionResetsWindow ==
    IsRun =>
        /\ \A k \in 1..Len(last.buffers) :
               LET prev == IF k = 1 THEN << >> ELSE last.buffers[k - 1]
                   entry == LastEntries[k]
               IN  IF Consumes(entry)
                   THEN /\ ResolvedFrom(Sent[k].args, entry[2], prev)
                        /\ last.buffers[k] = OwnResults(entry)
                   ELSE last.buffers[k] = prev \o OwnResults(entry)
        /\ \A k \in 1..(Len(LastEntries) - 1) :
               (/\ Consumes(LastEntries[k])
                /\ OwnResults(LastEntries[k]) = << >>
                /\ Consumes(LastEntries[k + 1]))
               => Len(Sent) <= k

\* A statement with two placeholders resolved both against a buffer of
\* four items and left the buffer empty.
C5_Witness ==
    /\ IsRun
    /\ \E k \in 2..Len(last.buffers) :
           /\ LastEntries[k] = <<"UPDATE", ArgsRef03>>
           /\ Len(last.buffers[k - 1]) >= 4
           /\ last.buffers[k] = << >>
           /\ Sent[k].args = PyList(<<last.buffers[k - 1][1], last.buffers[k - 1][4]>>)

(***************************************************************************)
(* C6.  Return value.  A successful execute_queue returns the final        *)
(* buffer: the flattened results, in order, of the statements from the     *)
(* last one that used a placeholder (inclusive) to the end of the queue,   *)
(* or of all statements when none did; the empty list when none of them    *)
(* returned rows.                                                          *)
(***************************************************************************)
C6_ReturnValue ==
    (IsRun /\ last.exc = "none") =>
        /\ last.ret = Window(LastEntries, Len(LastEntries))
        /\ (\A k \in WindowStart(LastEntries, Len(LastEntries))..Len(LastEntries) :
                FetchOutcome(LastEntries[k][1]) # "rows") => last.ret = << >>

\* The results of a consuming statement followed by those of a later
\* statement are returned.
C6_Witness ==
    /\ IsRun /\ last.exc = "none"
    /\ Len(LastEntries) = 3
    /\ LastEntries[2][1] = "INSERT_RETURNING"
    /\ LastEntries[3][1] = "SELECT"
    /\ Len(last.ret) = 5

(***************************************************************************)
(* C7.  One transaction per queue.  A successful execute_queue makes on    *)
(* the driver: one cursor, then for each statement its execute and its     *)
(* fetchall, then one commit, and no rollback; a failing execute_queue     *)
(* makes no commit.                                                        *)
(***************************************************************************)
C7_OneTransaction ==
    IsRun =>
        /\ last.exc = "none" =>
               LET n == Len(LastEntries)
                   c == Len(last.calls) - (2 * n) - 1
               IN  /\ c >= 1
                   /\ IsCursor(last.calls[c])
                   /\ Count(last.calls, IsCursor) = 1
                   /\ \A k \in 1..n :
                          /\ IsExecute(last.calls[c + (2 * k) - 1])
                          /\ last.calls[c + (2 * k)].call = "fetchall"
                   /\ IsCommit(last.calls[Len(last.calls)])
                   /\ Count(last.calls, IsCommit) = 1
                   /\ Count(last.calls, IsRollback) = 0
        /\ last.exc # "none" => Count(last.calls, IsCommit) = 0

\* A queue of three statements has been executed and committed.
C7_Witness ==
    /\ IsRun /\ last.exc = "none"
    /\ Len(LastEntries) = 3
    /\ Len(Sent) = 3

(***************************************************************************)
(* C8.  Queues are single-use.  After a successful execute_queue the name  *)
(* is not listed; the next call naming it fails with KeyError and changes  *)
(* no queue if it is execute_queue or add_to_queue, and succeeds with an   *)
(* empty queue if it is create_queue.                                      *)
(***************************************************************************)
C8_NextCall ==
    (IsRun /\ last.exc = "none" /\ last' # last /\ last'.queue = last.queue) =>
        /\ last'.op \in {"execute_queue", "add_to_queue"} =>
               last'.exc = "KeyError" /\ queues' = queues
        /\ last'.op = "create_queue" =>
               last'.exc = "none" /\ queues'[last.queue] = << >>

C8_SingleUse ==
    /\ []((IsRun /\ last.exc = "none") => last.queue \notin list_queues)
    /\ [][C8_NextCall]_vars

\* A queue of two statements has been executed successfully.
C8_Witness ==
    /\ IsRun /\ last.exc = "none"
    /\ Len(LastEntries) = 2
    /\ last.queue \notin list_queues

(***************************************************************************)
(* C9.  Illegal queue names fail without side effects.  create_queue on a  *)
(* live name, and add_to_queue and execute_queue on a name that is not     *)
(* live, raise KeyError, make no call on the driver and leave the queues,  *)
(* the connection and the database as they were.                           *)
(***************************************************************************)
C9_Call ==
    (/\ last' # last
     /\ \/ last'.op = "create_queue" /\ last'.queue \in DOMAIN queues
        \/ last'.op \in {"add_to_queue", "execute_queue"} /\ last'.queue \notin DOMAIN queues)
    => /\ last'.exc = "KeyError"
       /\ last'.calls = << >>
       /\ UNCHANGED <<queues, closed, isolation, pending, committed, runs>>

C9_IllegalNames == [][C9_Call]_vars

\* create_queue has failed on a queue holding two pending statements,
\* which are still there.
C9_Witness ==
    /\ last.op = "create_queue" /\ last.exc = "KeyError"
    /\ Len(queues[last.queue]) = 2
    /\ queues = last.before

(***************************************************************************)
(* C10.  add_to_queue entry count.  With many false a call that returns    *)
(* has appended the one entry (sql, sql_args); with many true and n        *)
(* argument sets it has appended n entries, the k-th being (sql, k-th      *)
(* argument set), after the entries already queued.                        *)
(***************************************************************************)
C10_EntryCount ==
    (last.op = "add_to_queue" /\ last.queue \in DOMAIN last.before /\ last.exc = "none") =>
        LET old == last.before[last.queue]
            now == queues[last.queue]
            sets == last.input.sql_args.v
        IN  /\ SubSeq(now, 1, Len(old)) = old
            /\ IF ~ last.input.many
               THEN /\ Len(now) = Len(old) + 1
                    /\ now[Len(now)] = <<last.input.sql, last.input.sql_args>>
               ELSE /\ Len(now) = Len(old) + Len(sets)
                    /\ \A k \in 1..Len(sets) :
                           now[Len(old) + k] = <<last.input.sql, sets[k]>>

\* A call with many true and two argument sets has appended two entries.
C10_Witness ==
    /\ last.op = "add_to_queue" /\ last.exc = "none"
    /\ last.input.many
    /\ Len(last.input.sql_args.v) = 2
    /\ Len(queues[last.queue]) = Len(last.before[last.queue]) + 2


ExecutorOps == {"execute", "executemany", "execute_fetchone", "execute_fetchall"}

\* The argument shapes the specification allows: a sequence (list or
\* tuple), a mapping, or none.
ValidShape(sql_args) == sql_args.t \in {"none", "list", "tuple", "dict"}

\* The last call was execute, execute_fetchone or execute_fetchall.
IsSingle == last.op \in ExecutorOps /\ ~ last.input.many

\* C11: the shape check succeeds for every list, tuple, dict and for None,
\* and raises TypeError for every other value, that is for every scalar and
\* every string, whatever its value: a call of execute, execute_fetchone or
\* execute_fetchall fails its validation exactly when its sql_args are not
\* of an allowed shape.
C11_ShapeCheck ==
    IsSingle =>
        /\ _check_sql_args(last.input.sql_args) <=> ValidShape(last.input.sql_args)
        /\ (last.exc = "TypeError" /\ last.stage = "validate")
               <=> ~ ValidShape(last.input.sql_args)

\* C12: whenever add_to_queue raises TypeError, with many false or with many
\* true and an argument set of a disallowed shape at any position of the
\* list, the queues are exactly as they were before the call: no entry of
\* the call has been appended.
C12_RejectedBeforeQueueing ==
    last.op = "add_to_queue" /\ last.exc = "TypeError" => queues = last.before

\* The last call was an operation of the Statement Executor that handed its
\* statement to the driver.
ReachedDriver ==
    /\ last.op \in ExecutorOps
    /\ \E k \in 1..Len(last.calls) : last.calls[k].call \in {"execute", "executemany"}

\* C13: every call of execute, executemany, execute_fetchone or
\* execute_fetchall that reaches the driver ends with exactly one commit and
\* no rollback when it returns, and with exactly one rollback, no commit and
\* GDExecutionError when the driver fails; no call leaves work of its own
\* pending in the connection's transaction.
C13_TransactionBoundary ==
    ReachedDriver =>
        /\ last.exc = "none" =>
               /\ Count(last.calls, IsCommit) = 1
               /\ Count(last.calls, IsRollback) = 0
        /\ last.exc # "none" =>
               /\ last.exc = "GDExecutionError"
               /\ Count(last.calls, IsRollback) = 1
               /\ Count(last.calls, IsCommit) = 0
        /\ RunEffects(pending) = {}

\* The arguments of a call of the Statement Executor have a disallowed
\* shape: sql_args itself or, for executemany, an element of the batch.
Disallowed(input) ==
    IF input.many
    THEN /\ Iterable(input.sql_args)
         /\ \E k \in 1..Len(list(input.sql_args)) : ~ ValidShape(list(input.sql_args)[k])
    ELSE ~ ValidShape(input.sql_args)

\* C14: when execute, execute_fetchone or execute_fetchall is called with
\* sql_args of a disallowed shape, or executemany with a batch in which an
\* element has a disallowed shape, the call raises TypeError and has made
\* no call on the driver: no cursor acquired, no connection reopened, no
\* statement sent, no commit and no rollback.
C14_ValidationPrecedesIO ==
    last.op \in ExecutorOps /\ Disallowed(last.input) =>
        /\ last.exc = "TypeError"
        /\ last.stage = "validate"
        /\ last.calls = << >>

IsConnect(c) == c.call = "connect"

\* The step is a call that acquires a cursor: an operation of the Statement
\* Executor past its validation, or execute_queue on a live queue.
Acquires == runs' = runs + 1

\* C16: whenever the connection is closed when execute, executemany,
\* execute_fetchone, execute_fetchall or execute_queue acquires a cursor,
\* connect is called exactly once, first, with the arguments of the admin
\* mode given at construction; when it succeeds the cursor is created next
\* on the open connection and the operation sends its statement as it does
\* on an open connection; the queues are those of before the call, less
\* the queue that execute_queue has run.
C16_Step ==
    closed /\ Acquires =>
        LET calls == last'.calls
        IN  /\ Len(calls) >= 1
            /\ calls[1] = ConnectCall(admin)
            /\ Count(calls, IsConnect) = 1
            /\ last'.op \in ExecutorOps \cup {"execute_queue"}
            /\ \/ /\ Len(calls) = 1
                  /\ last'.exc = "GDConnectionError" /\ last'.stage = "cursor"
                  /\ closed'
               \/ /\ Len(calls) >= 2
                  /\ IsCursor(calls[2])
                  /\ ~ closed'
                  /\ last'.stage # "cursor" /\ last'.op \in ExecutorOps =>
                         /\ Len(calls) >= 3
                         /\ calls[3].call \in {"execute", "executemany"}
                         /\ calls[3].sql = last'.input.sql
                         /\ calls[3].args = last'.input.sql_args
                  /\ last'.stage # "cursor" /\ last'.op = "execute_queue"
                       /\ Len(queues[last'.queue]) > 0 /\ last'.stage # "scan" =>
                         /\ Len(calls) >= 3
                         /\ IsExecute(calls[3])
                         /\ calls[3].sql = queues[last'.queue][1][1]
            /\ last'.before = queues
            /\ DOMAIN queues' \subseteq DOMAIN queues
            /\ \A n \in DOMAIN queues :
                   IF n \in DOMAIN queues' THEN queues'[n] = queues[n]
                   ELSE last'.op = "execute_queue" /\ n = last'.queue

C16_TransparentReopen == [][C16_Step]_vars

\* A handler constructed as admin without database, with a queue of two
\* entries, whose closed connection execute_fetchall has reopened; the call
\* returned the rows and the queue is still there.
C16_Witness ==
    /\ last.op = "execute_fetchall" /\ last.exc = "none"
    /\ admin = "admin_without_database"
    /\ Len(last.calls) = 5
    /\ last.calls[1] = ConnectCall("admin_without_database")
    /\ last.ret # << >>
    /\ "q1" \in DOMAIN queues /\ Len(queues["q1"]) = 2
    /\ queues = last.before

\* The last call was the autocommit setter and it returned.
Toggled == last.op = "autocommit" /\ last.exc = "none"

C18_Step ==
    last'.op = "autocommit" /\ last'.value.t # "bool" =>
        /\ last'.exc = "TypeError"
        /\ last'.calls = << >>
        /\ isolation' = isolation

C19_InvalidMode ==
    last.op = "__init__" /\ last.admin \notin INIT_ADMIN_OPTS =>
        /\ last.exc # "none"
        /\ last.calls = << >>
        /\ ~ Constructed
        /\ last.exc # "GDConnectionError"

(***************************************************************************)
(* C20.  No internal serialization.                                        *)
(***************************************************************************)
\* The changes made by the statements caller c has executed.
Executed(c) ==
    LET me == callers.th[c]
    IN  {Effect(c, k) : k \in {j \in 1..Len(me.st.buffers) : HasEffect(me.entries[j][1])}}

\* The call of caller c is over and its queue has ended partially
\* committed (the call raised, yet a statement of it is committed) or has
\* been reported as successful with a statement of it not committed.
Broken(c) ==
    LET me == callers.th[c]
    IN  /\ me.pc = "done"
        /\ \/ me.st.exc = "none" /\ ~ (Executed(c) \subseteq committed)
           \/ me.st.exc # "none" /\ Executed(c) \cap committed # {}

\* C20: when the two callers' calls of execute_queue are serialized, no
\* queue ends partially committed and no queue reported as successful has
\* statements that were rolled back (without serialization such a state is
\* reachable).
C20_SerializedSafe ==
    callers.serialized => \A c \in Callers : ~ Broken(c)

(***************************************************************************)
(* C21.  A failed queue never leaks into a later commit.                   *)
(***************************************************************************)
\* The call of caller c is over and it raised.
Failed(c) == callers.th[c].pc = "done" /\ callers.th[c].st.exc # "none"

\* C21: once execute_queue has raised, for whatever reason, the connection
\* holds no uncommitted work of that queue and nothing of it is committed,
\* so no later successful operation on the handler commits an effect of a
\* statement of the failed queue.  The calls on the handler come one after
\* the other (callers.serialized).
C21_NoLeak ==
    callers.serialized =>
        \A c \in Callers :
            Failed(c) => Executed(c) \cap (pending \cup committed) = {}

(***************************************************************************)
(* C22.  Queue atomicity whatever the autocommit setting.                  *)
(***************************************************************************)
\* C22: also when autocommit has been enabled, execute_queue runs the queue
\* as one transaction: when a statement of the queue fails in the driver,
\* no effect of the statements executed before it is persistent.
C22_AtomicInAutocommit ==
    IsRun /\ last.exc = "GDExecutionError" /\ last.stage \in {"execute", "fetch"} =>
        RunEffects(committed) = {}


(***************************************************************************)
(* The queue engine on queues whose arguments exercise the placeholder     *)
(* scan: a result of placeholder form, a negative index, a dict, the empty *)
(* str, and braces around something int() refuses.  UPDATE binds whatever  *)
(* it is given, so every statement that passes the scan is sent.           *)
(***************************************************************************)
ArgsNeg == PyTuple(<<PyStr(<<"{", "-", "1", "}">>)>>)
ArgsMap == PyDict(<< <<PyStr(<<"a">>), Placeholder(0)>> >>)
ArgsEmptyStr == PyTuple(<<PyStr(<< >>)>>)
ArgsBraces == PyTuple(<<PyStr(<<"{", "}">>)>>)
ArgsWord == PyTuple(<<PyStr(<<"{", "x", "}">>)>>)

TokenEntries ==
    { <<"SELECT_TOKEN", PyNone>>, <<"UPDATE", ArgsRef0>>, <<"UPDATE", ArgsNeg>>,
      <<"UPDATE", ArgsMap>>, <<"UPDATE", ArgsEmptyStr>>, <<"UPDATE", ArgsBraces>>,
      <<"UPDATE", ArgsWord>> }

InitTokens ==
    /\ \E entries \in SeqsUpTo(TokenEntries, MaxQueueLen) :
           /\ queues = WithQueue(<< >>, "q1", entries)
           /\ appended = Len(entries)
    /\ closed = FALSE
    /\ isolation = "read_committed"
    /\ pending = {}
    /\ committed = {}
    /\ runs = 0
    /\ last = NoCall
    /\ admin = "no_admin"
    /\ callers = NoCallers

NextTokens ==
    \/ \E queue \in HandlerQueues, acq \in AcquireOutcomes : execute_queue(queue, acq)
    \/ close_connection

SpecTokens == InitTokens /\ [][NextTokens]_vars

\* The last run of execute_queue held its cursor and began the scan of the
\* entry at position k: the entries before it completed.
Reached(k) ==
    /\ IsRun
    /\ last.stage # "cursor"
    /\ k \in 1..Len(LastEntries)
    /\ Len(last.buffers) >= k - 1

\* The Result Buffer as the scan of the entry at position k found it.
BufferBefore(k) == IF k = 1 THEN << >> ELSE last.buffers[k - 1]

\* The last run failed in the scan of the entry at position k.
ScanFailed(k) == last.exc # "none" /\ last.pos = k /\ last.stage = "scan"

(***************************************************************************)
(* C23.  Placeholder indexes are non-negative: when the scan of            *)
(* execute_queue comes to an entry with a placeholder of negative index,   *)
(* whatever the Result Buffer holds, the placeholder is not resolved and   *)
(* the run fails at that entry with GDExecutionError.                      *)
(***************************************************************************)
HasNegativeToken(sql_args) ==
    \E i \in 1..Len(Items(sql_args)) :
        /\ IsToken(Items(sql_args)[i])
        /\ TokenIndex(Items(sql_args)[i]).ok
        /\ TokenIndex(Items(sql_args)[i]).val < 0

C23_NonNegativeIndex ==
    \A k \in 1..MaxQueueLen :
        Reached(k) /\ HasNegativeToken(LastEntries[k][2]) =>
            /\ ScanFailed(k)
            /\ last.exc = "GDExecutionError"

(***************************************************************************)
(* C24.  Mapping arguments survive queueing: a statement queued with a     *)
(* dict as its arguments is sent by execute_queue with a dict of the same  *)
(* keys, each value that is not a placeholder unchanged.                   *)
(***************************************************************************)
SameMapping(sent_args, sql_args) ==
    /\ sent_args.t = "dict"
    /\ Len(sent_args.v) = Len(sql_args.v)
    /\ \A i \in 1..Len(sql_args.v) :
           /\ sent_args.v[i][1] = sql_args.v[i][1]
           /\ ~ IsToken(sql_args.v[i][2]) => sent_args.v[i][2] = sql_args.v[i][2]

C24_MappingSent ==
    IsRun =>
        \A k \in 1..Len(Sent) :
            LastEntries[k][2].t = "dict" => SameMapping(Sent[k].args, LastEntries[k][2])

(***************************************************************************)
(* C25.  Strict placeholder grammar: an argument that is the empty str, or *)
(* braces around something that is not a decimal integer, is not a         *)
(* placeholder.  When the scan comes to an entry whose arguments hold such *)
(* a str and no placeholder, the run does not fail at that entry, the      *)
(* arguments are sent unchanged and the Result Buffer is not cleared.      *)
(***************************************************************************)
Malformed(arg) ==
    /\ arg.t = "str"
    /\ \/ Len(arg.v) = 0
       \/ IsToken(arg) /\ ~ TokenIndex(arg).ok

OnlyMalformed(sql_args) ==
    /\ \E i \in 1..Len(Items(sql_args)) : Malformed(Items(sql_args)[i])
    /\ \A i \in 1..Len(Items(sql_args)) :
           IsToken(Items(sql_args)[i]) => Malformed(Items(sql_args)[i])

C25_StrictGrammar ==
    \A k \in 1..MaxQueueLen :
        Reached(k) /\ OnlyMalformed(LastEntries[k][2]) =>
            /\ ~ ScanFailed(k)
            /\ k <= Len(Sent)
            /\ Sent[k].args = PyList(Items(LastEntries[k][2]))
            /\ last.buffers[k] = BufferBefore(k)

(***************************************************************************)
(* C30.  Substitution is not recursive: when a placeholder of a list or    *)
(* tuple of arguments resolves to an element of the Result Buffer that is  *)
(* itself of placeholder form, that element is what the driver receives;   *)
(* the other arguments of the statement, and the statements after it, are  *)
(* resolved from their own stored arguments only.                          *)
(***************************************************************************)
ResolvesToToken(arg, buf) ==
    /\ IsToken(arg)
    /\ TokenIndex(arg).ok
    /\ InRange(buf, TokenIndex(arg).val)
    /\ IsToken(GetItem(buf, TokenIndex(arg).val))

C30_NotRecursive ==
    IsRun =>
        \A k \in 1..Len(Sent) :
            \A i \in 1..Len(Items(LastEntries[k][2])) :
                ResolvesToToken(Items(LastEntries[k][2])[i], BufferBefore(k)) =>
                    Sent[k].args.v[i] =
                        GetItem(BufferBefore(k), TokenIndex(Items(LastEntries[k][2])[i]).val)

C30_Witness ==
    /\ IsRun
    /\ last.exc = "none"
    /\ Len(Sent) = 2
    /\ LastEntries = << <<"SELECT_TOKEN", PyNone>>, <<"UPDATE", ArgsRef0>> >>
    /\ Sent[2].args = PyList(<<Placeholder(1)>>)

(***************************************************************************)
(* C26.  The isolation level survives a transparent reopen: whenever the   *)
(* connection is closed with autocommit selected and an operation that     *)
(* acquires a cursor reopens it, the connection is in autocommit after the *)
(* call.                                                                   *)
(***************************************************************************)
C26_Step ==
    closed /\ isolation = "autocommit" /\ Acquires /\ ~ closed' =>
        isolation' = "autocommit"

C26_IsolationSurvivesReopen == [][C26_Step]_vars

(***************************************************************************)
(* C27.  Connection failure before a queue starts: when execute_queue on a *)
(* live queue cannot acquire its cursor, whether reopening the closed      *)
(* connection fails or the cursor cannot be created, it raises            *)
(* GDConnectionError, it has sent no statement and issued neither commit   *)
(* nor rollback, nothing is pending or persisted for the run, and every    *)
(* queue, the one named included, is stored as it was before the call.     *)
(***************************************************************************)
CursorNotAcquired == IsRun /\ last.stage = "cursor"

C27_FailureBeforeStart ==
    CursorNotAcquired =>
        /\ last.exc = "GDConnectionError"
        /\ Count(last.calls, IsExecute) = 0
        /\ Count(last.calls, IsCommit) = 0
        /\ Count(last.calls, IsRollback) = 0
        /\ RunEffects(pending \cup committed) = {}
        /\ queues = last.before
        /\ last.queue \in DOMAIN queues

\* A queue of MaxQueueLen entries whose run found the connection closed and
\* could not reopen it.
C27_Witness ==
    /\ CursorNotAcquired
    /\ closed
    /\ Len(LastEntries) = MaxQueueLen
    /\ queues[last.queue] = LastEntries
    /\ Count(last.calls, IsConnect) = 1
    /\ Count(last.calls, IsCursor) = 0

(***************************************************************************)
(* C28.  execute_fetchone and execute_fetchall on a statement without a    *)
(* result set.  The statement is executed, the fetch raises, and the call  *)
(* ends with GDExecutionError after one rollback and no commit.            *)
(***************************************************************************)
FetchOps == {"execute_fetchone", "execute_fetchall"}

\* The last call was a fetch operation whose statement has no result set
\* and was executed.
FetchedNoResultSet ==
    /\ last.op \in FetchOps
    /\ FetchOutcome(last.input.sql) = "ProgrammingError"
    /\ last.stage \notin {"validate", "cursor", "execute"}

RolledBackNoCommit ==
    /\ last.exc = "GDExecutionError"
    /\ last.stage = "fetch"
    /\ Count(last.calls, IsExecute) = 1
    /\ Count(last.calls, IsRollback) = 1
    /\ Count(last.calls, IsCommit) = 0
    /\ IsRollback(last.calls[Len(last.calls)])
    /\ RunEffects(pending) = {}

\* C28 as stated: in every such call the effects of the statement are not
\* persisted.
C28_FetchWithoutResultSet ==
    FetchedNoResultSet =>
        /\ RolledBackNoCommit
        /\ RunEffects(committed) = {}

\* C28, amended: the effects of the statement are not persisted when the
\* connection is in read-committed isolation; in autocommit the statement
\* is persistent from its execution on and the rollback does not undo it.
C28_FetchWithoutResultSetReadCommitted ==
    FetchedNoResultSet =>
        /\ RolledBackNoCommit
        /\ RunEffects(committed) =
               IF isolation = "autocommit" THEN {[run |-> last.run, pos |-> 1]} ELSE {}

\* An INSERT run by execute_fetchall in read-committed isolation.
C28_Witness ==
    /\ FetchedNoResultSet
    /\ last.op = "execute_fetchall"
    /\ last.input.sql = "INSERT"
    /\ isolation = "read_committed"
    /\ RunEffects(committed) = {}

(***************************************************************************)
(* C29.  Queue independence: a call of create_queue, add_to_queue or       *)
(* execute_queue, whether it succeeds or fails, leaves every queue other   *)
(* than the one it names as it was: live if it was live, with the same     *)
(* entries in the same order, and absent if it was absent.                 *)
(***************************************************************************)
C29_Step ==
    \A n \in QueueNames \ {last'.queue} :
        /\ n \in DOMAIN queues' <=> n \in DOMAIN queues
        /\ n \in DOMAIN queues => queues'[n] = queues[n]

C29_QueueIndependence == [][C29_Step]_vars

\* Queue q1 has failed in execute_queue and is deleted; queue q2 is live
\* with the entry it had before the call.
C29_Witness ==
    /\ IsRun
    /\ last.exc = "GDExecutionError"
    /\ last.queue = "q1"
    /\ "q1" \notin DOMAIN queues
    /\ "q2" \in DOMAIN queues
    /\ Len(queues["q2"]) >= 1
    /\ queues["q2"] = last.before["q2"]
=============================================================================
